---- MODULE Spec2Model ----
(***************************************************************************)
(* Median Ratio Normalization (MRN) as carried out by the notebook         *)
(* src/mrn/p9855_mrn.ipynb, section 3 (Steps I-VII).                        *)
(*                                                                         *)
(* Each code cell of the section is one action; a "Run All" executes the   *)
(* cells top to bottom and stops at the first cell that raises.            *)
(*                                                                         *)
(* Numbers.  Counts are non-negative integers.  Every derived quantity is  *)
(* an exact non-negative rational [num, den] in lowest terms, extended by  *)
(* the two non-finite values the float arithmetic of numpy produces here:  *)
(* NaN (0/0) and Inf (x/0, x > 0).  The geometric mean is an n-th root and *)
(* is kept symbolically (radicand and degree); quantities derived from it  *)
(* carry the power of the geometric mean they contain.  Rounding of the    *)
(* float arithmetic is not modelled.                                       *)
(***************************************************************************)
EXTENDS Integers, Sequences, FiniteSets, TLC

\* ------------------------------------------------------------------ bounds
NumSamples == 2     \* rows of EM (the bulks kept by the library filter)
NumClones  == 2     \* clone labels, numbered in sorted order
MaxCount   == 1     \* largest raw count of one gene in one sample
MaxScale   == 2     \* largest factor k used to rescale one sample
MaxRuns    == 2     \* runs of the section in one kernel
MaxRatios  == 3     \* longest sequence of ratios given to np.median
MaxTerm    == 3     \* largest numerator and denominator of such a ratio

\* 'P1_A03', the clone chosen as reference sample; the first label in
\* sorted order.
RefClone == 1

\* bulks_good, the rows of EM
Samples == 1..NumSamples

\* a bulk of the metadata that the library filter has dropped from EM
DroppedBulk == 0

\* bulks, the bulks of the experiment
Bulks == Samples \cup {DroppedBulk}

Clones == 1..NumClones

\* genes_relevant, the ordered list of the columns of EM: two genes stand
\* for the list, CD3D (ENSG00000167286) and ACTB (ENSG00000075624)
genes_relevant == <<"CD3D", "ACTB">>
Genes == {genes_relevant[i] : i \in 1..Len(genes_relevant)}

\* ------------------------------------------------------- float arithmetic
RECURSIVE Gcd(_, _)
Gcd(a, b) == IF b = 0 THEN a ELSE Gcd(b, a % b)

NaN  == [num |-> 0, den |-> 0]
Inf  == [num |-> 1, den |-> 0]
Zero == [num |-> 0, den |-> 1]
One  == [num |-> 1, den |-> 1]

Norm(n, d) ==
    IF d = 0 THEN (IF n = 0 THEN NaN ELSE Inf)
    ELSE LET g == Gcd(n, d) IN [num |-> n \div g, den |-> d \div g]

Rat(n) == [num |-> n, den |-> 1]

IsFinite(v) == v.den # 0

\* a / b : 0/0 = NaN, x/0 = Inf, NaN propagates
Div(a, b) == Norm(a.num * b.den, a.den * b.num)

\* a * b : 0 * Inf = NaN, NaN propagates
Mul(a, b) == Norm(a.num * b.num, a.den * b.den)

\* a + b : NaN propagates
Add(a, b) ==
    IF a = Inf /\ b = Inf THEN Inf
    ELSE Norm(a.num * b.den + b.num * a.den, a.den * b.den)

\* a < b on finite values
Less(a, b) == a.num * b.den < b.num * a.den

RECURSIVE SumOver(_, _)
SumOver(S, f) ==
    IF S = {} THEN Zero
    ELSE LET x == CHOOSE x \in S : TRUE
         IN  Add(f[x], SumOver(S \ {x}, f))

RECURSIVE ProdOver(_, _)
ProdOver(S, f) ==
    IF S = {} THEN One
    ELSE LET x == CHOOSE x \in S : TRUE
         IN  Mul(f[x], ProdOver(S \ {x}, f))

RECURSIVE IntSum(_, _)
IntSum(S, f) ==
    IF S = {} THEN 0
    ELSE LET x == CHOOSE x \in S : TRUE
         IN  f[x] + IntSum(S \ {x}, f)

\* pandas mean (skipna=True): the mean of the values that are not NaN,
\* NaN when there is none
MeanSkipNa(S, f) ==
    LET ok == {x \in S : f[x] # NaN}
    IN  IF ok = {} THEN NaN
        ELSE Div(SumOver(ok, f), Rat(Cardinality(ok)))

\* ------------------------------------------------------------------ state
VARIABLES
    EM,                 \* raw counts, sample -> gene -> count
    meta_df,            \* Clone_ID column of the metadata, bulk -> clone
    pc,                 \* the next cell to run
    err,                \* the exception that stopped the run, or "none"
    library_size,
    Y,
    Y_clonal,
    Y_ref,
    tau,
    ok_genes,           \* clone -> ok_genes of that iteration of the loop
    ratios,             \* clone -> ratios of that iteration of the loop
    clonalities,
    scalar_lib_size,
    effective_lib_size,
    geo_mean,
    relative_normalization_factor,
    mrn_counts,
    runs,               \* the runs of the section the kernel has seen before
    previous,           \* what the run before this one ended with
    relevant_call,      \* a call of get_relevant: arguments and result
    median_call         \* a call of np.median: argument and result

\* the state outside the cells of Steps I-VII
outside == <<runs, previous, relevant_call, median_call>>

vars == <<EM, meta_df, pc, err, library_size, Y, Y_clonal, Y_ref, tau,
          ok_genes, ratios, clonalities, scalar_lib_size,
          effective_lib_size, geo_mean, relative_normalization_factor,
          mrn_counts, runs, previous, relevant_call, median_call>>

\* a name that no cell has assigned yet
Unbound == << >>
UnboundGeo == [rad |-> NaN, deg |-> 0]

\* clones = sorted(list(meta_df.Clone_ID.unique()))
ClonesOf(meta) == {meta[b] : b \in DOMAIN meta}

clones == ClonesOf(meta_df)

\* ------------------------------------------------- the stages as functions
\* LibrarySize counting the expressed genes of a row, not summing the counts
LibrarySizeExpressed(em) ==
    [s \in DOMAIN em |-> Cardinality({g \in Genes : em[s][g] > 0})]

\* Step I (line 474): library_size = EM.sum(axis=1)
LibrarySize(em) ==
    [s \in DOMAIN em |-> IntSum(Genes, em[s])]

\* YOf with every column divided by the library size of the first sample
YOfFirstLibrary(em, ls) ==
    [s \in DOMAIN em |-> [g \in Genes |-> Div(Rat(em[s][g]), Rat(ls[1]))]]

\* Step I (line 494): Y = EM.apply(lambda column : column / library_size)
YOf(em, ls) ==
    [s \in DOMAIN em |-> [g \in Genes |-> Div(Rat(em[s][g]), Rat(ls[s]))]]

\* Step II (line 524):
\* Y_clonal = Y.assign(Clone=meta_df['Clone_ID']).groupby('Clone').apply(np.mean)
\* assign aligns the metadata on the index of Y: a sample that the metadata
\* does not list gets the key NaN, and groupby drops the rows whose key is
\* NaN.  The mean of a group skips NaN entries.
YClonal(y, meta) ==
    LET keyed      == {s \in DOMAIN y : s \in DOMAIN meta}
        members(c) == {s \in keyed : meta[s] = c}
    IN  [c \in {meta[s] : s \in keyed} |->
            [g \in Genes |->
                MeanSkipNa(members(c), [s \in members(c) |-> y[s][g]])]]

\* OkGenes with "or" for "and"
OkGenesEither(numerator, denominator) ==
    SelectSeq(genes_relevant,
              LAMBDA gene : (numerator[gene] # Zero) \/ (denominator[gene] # Zero))

\* Step III (line 571): the genes whose value is nonzero in both profiles
OkGenes(numerator, denominator) ==
    SelectSeq(genes_relevant,
              LAMBDA gene : (numerator[gene] # Zero) /\ (denominator[gene] # Zero))

\* Ratios with every ratio taken against the first ok gene of the reference
RatiosFirstDenominator(numerator, denominator, ok) ==
    [i \in 1..Len(ok) |-> Div(numerator[ok[i]], denominator[ok[1]])]

\* Step III (line 572): ratios = numerator[ok_genes] / denominator[ok_genes]
Ratios(numerator, denominator, ok) ==
    [i \in 1..Len(ok) |-> Div(numerator[ok[i]], denominator[ok[i]])]

\* np.median: NaN for no value or when a value is NaN; else the middle value
\* of the sorted values, or the mean of the two middle values
\* np.median taking the upper of the two middle values
MedianUpperMiddle(r) ==
    LET n == Len(r)
        s == SortSeq(r, Less)
    IN  IF n = 0 THEN NaN
        ELSE IF \E i \in 1..n : r[i] = NaN THEN NaN
        ELSE s[n \div 2 + 1]

Median(r) ==
    LET n == Len(r)
        s == SortSeq(r, Less)
    IN  IF n = 0 THEN NaN
        ELSE IF \E i \in 1..n : r[i] = NaN THEN NaN
        ELSE IF n % 2 = 1 THEN s[(n + 1) \div 2]
        ELSE Div(Add(s[n \div 2], s[n \div 2 + 1]), Rat(2))

\* Step III (lines 568-573): the clones the loop goes through before
\* Y_clonal.loc[clone] raises KeyError; all of them when it never does
LoopDone(cl, yc) ==
    {c \in cl : \A b \in cl : b <= c => b \in DOMAIN yc}

TauOkGenes(cl, yc, yref) ==
    [c \in LoopDone(cl, yc) |-> OkGenes(yc[c], yref)]

TauRatios(cl, yc, yref) ==
    [c \in LoopDone(cl, yc) |->
        Ratios(yc[c], yref, OkGenes(yc[c], yref))]

\* tau = pd.Series(index = clones), filled clone by clone
TauOf(cl, yc, yref) ==
    [c \in cl |->
        IF c \in LoopDone(cl, yc)
        THEN Median(Ratios(yc[c], yref, OkGenes(yc[c], yref)))
        ELSE NaN]

\* the label a sample gets when the metadata does not list it (NaN)
NoClone == 0

\* Step V (line 605): clonalities = pd.Series(meta_df['Clone_ID'], index=library_size.index)
Clonalities(meta, ls) ==
    [s \in DOMAIN ls |-> IF s \in DOMAIN meta THEN meta[s] ELSE NoClone]

\* Step V (line 616): scalar_lib_size = clonalities.map(tau)
ScalarLibSize(cl, t) ==
    [s \in DOMAIN cl |-> IF cl[s] \in DOMAIN t THEN t[cl[s]] ELSE NaN]

\* EffectiveLibSize without the scaling factor of the clone
EffectiveLibSizeUnscaled(sc, ls) ==
    [s \in DOMAIN ls |-> IF sc[s] = NaN THEN NaN ELSE Rat(ls[s])]

\* Step V (line 627): effective_lib_size = scalar_lib_size * library_size
EffectiveLibSize(sc, ls) ==
    [s \in DOMAIN ls |-> Mul(sc[s], Rat(ls[s]))]

RECURSIVE Pow(_, _)
Pow(v, n) == IF n = 0 THEN One ELSE Mul(v, Pow(v, n - 1))

\* GeoMean with the arithmetic mean in place of the geometric mean
GeoMeanArithmetic(els) ==
    LET ok == {s \in DOMAIN els : els[s] # NaN}
        n  == Cardinality(ok)
    IN  IF ok = {} THEN [rad |-> NaN, deg |-> 1]
        ELSE [rad |-> Pow(Div(SumOver(ok, els), Rat(n)), n), deg |-> n]

\* Step VI (line 644): geo_mean = np.exp(effective_lib_size.apply(np.log).mean())
\* The mean skips NaN; log(0) = -inf makes the mean -inf and the result 0.
\* The value is rad^(1/deg); NaN when every entry is NaN.
GeoMean(els) ==
    LET ok == {s \in DOMAIN els : els[s] # NaN}
    IN  IF ok = {} THEN [rad |-> NaN, deg |-> 1]
        ELSE [rad |-> ProdOver(ok, els), deg |-> Cardinality(ok)]

\* a value coef * G^gexp, G the geometric mean; gexp is 0 when the value
\* is zero or not finite, or when G is rational by construction
GVal(c, e) ==
    IF c \in {NaN, Inf, Zero} THEN [coef |-> c, gexp |-> 0]
    ELSE [coef |-> c, gexp |-> e]

\* v / geo_mean
DivByGeo(v, gm) ==
    IF gm.deg = 1 \/ gm.rad \in {NaN, Zero}
    THEN GVal(Div(v, gm.rad), 0)
    ELSE GVal(v, -1)

\* Step VI (line 663): relative_normalization_factor = effective_lib_size / geo_mean
RelativeNormalizationFactor(els, gm) ==
    [s \in DOMAIN els |-> DivByGeo(els[s], gm)]

\* MrnCounts dividing the library-size-normalized matrix Y, not EM
MrnCountsFromY(em, rnf) ==
    LET y == [s \in DOMAIN em |->
                 [g \in Genes |->
                     Div(Rat(em[s][g]), Rat(IntSum(Genes, em[s])))]]
    IN  [s \in DOMAIN em |->
            [g \in Genes |-> GVal(Div(y[s][g], rnf[s].coef), -rnf[s].gexp)]]

\* Step VII (line 684): mrn_counts = EM.div(relative_normalization_factor, axis=0)
MrnCounts(em, rnf) ==
    [s \in DOMAIN em |->
        [g \in Genes |-> GVal(Div(Rat(em[s][g]), rnf[s].coef), -rnf[s].gexp)]]

\* ------------------------------------------------------------ the notebook
\* no run of the section before this one
NoRun == [pc |-> "none", err |-> "none", geo_mean |-> UnboundGeo,
          mrn_counts |-> Unbound]

\* a function that is not being called
NoCall == [called |-> FALSE]

\* The inputs of section 3: EM = bulks_raw[genes_relevant].loc[bulks_good]
\* (line 432) and the metadata loaded from the pickle (line 220).
Init ==
    /\ EM \in [Samples -> [Genes -> 0..MaxCount]]
    /\ \E D \in SUBSET Bulks : meta_df \in [D -> Clones]
    /\ pc = "library_size"
    /\ err = "none"
    /\ library_size = Unbound
    /\ Y = Unbound
    /\ Y_clonal = Unbound
    /\ Y_ref = Unbound
    /\ tau = Unbound
    /\ ok_genes = Unbound
    /\ ratios = Unbound
    /\ clonalities = Unbound
    /\ scalar_lib_size = Unbound
    /\ effective_lib_size = Unbound
    /\ geo_mean = UnboundGeo
    /\ relative_normalization_factor = Unbound
    /\ mrn_counts = Unbound
    /\ runs = 0
    /\ previous = NoRun
    /\ relevant_call = NoCall
    /\ median_call = NoCall

\* a cell runs when it is the next one and no cell before it has raised
Runs(cell) == pc = cell /\ err = "none"

CellLibrarySize ==
    /\ Runs("library_size")
    /\ library_size' = LibrarySize(EM)
    /\ pc' = "Y"
    /\ UNCHANGED <<outside, EM, meta_df, err, Y, Y_clonal, Y_ref, tau, ok_genes,
                   ratios, clonalities, scalar_lib_size, effective_lib_size,
                   geo_mean, relative_normalization_factor, mrn_counts>>

CellY ==
    /\ Runs("Y")
    /\ Y' = YOf(EM, library_size)
    /\ pc' = "Y_clonal"
    /\ UNCHANGED <<outside, EM, meta_df, err, library_size, Y_clonal, Y_ref, tau,
                   ok_genes, ratios, clonalities, scalar_lib_size,
                   effective_lib_size, geo_mean,
                   relative_normalization_factor, mrn_counts>>

CellYClonal ==
    /\ Runs("Y_clonal")
    /\ Y_clonal' = YClonal(Y, meta_df)
    /\ pc' = "Y_ref"
    /\ UNCHANGED <<outside, EM, meta_df, err, library_size, Y, Y_ref, tau, ok_genes,
                   ratios, clonalities, scalar_lib_size, effective_lib_size,
                   geo_mean, relative_normalization_factor, mrn_counts>>

\* the exceptions of Python that are LookupError; KeyError, raised by .loc
\* for a label that is not in the index, is one
LookupErrors == {"KeyError", "IndexError"}

\* CellYRef taking a profile of NaN, and going on, when the label is missing
CellYRefReindex ==
    /\ Runs("Y_ref")
    /\ Y_ref' = IF RefClone \in DOMAIN Y_clonal
                THEN Y_clonal[RefClone]
                ELSE [g \in Genes |-> NaN]
    /\ pc' = "tau"
    /\ UNCHANGED <<outside, EM, meta_df, err, library_size, Y, Y_clonal, tau,
                   ok_genes, ratios, clonalities, scalar_lib_size,
                   effective_lib_size, geo_mean,
                   relative_normalization_factor, mrn_counts>>

\* line 541: Y_ref = Y_clonal.loc['P1_A03'], KeyError when the label is not
\* in the index of Y_clonal
CellYRef ==
    /\ Runs("Y_ref")
    /\ IF RefClone \in DOMAIN Y_clonal
       THEN /\ Y_ref' = Y_clonal[RefClone]
            /\ pc' = "tau"
            /\ err' = err
       ELSE /\ err' = "KeyError"
            /\ UNCHANGED <<Y_ref, pc>>
    /\ UNCHANGED <<outside, EM, meta_df, library_size, Y, Y_clonal, tau, ok_genes,
                   ratios, clonalities, scalar_lib_size, effective_lib_size,
                   geo_mean, relative_normalization_factor, mrn_counts>>

\* lines 567-574: the loop over clones; Y_clonal.loc[clone] raises KeyError
\* for a clone of the metadata none of whose samples is in Y_clonal, and
\* the entries of tau set before that stay
CellTau ==
    /\ Runs("tau")
    /\ tau' = TauOf(clones, Y_clonal, Y_ref)
    /\ ok_genes' = TauOkGenes(clones, Y_clonal, Y_ref)
    /\ ratios' = TauRatios(clones, Y_clonal, Y_ref)
    /\ IF LoopDone(clones, Y_clonal) = clones
       THEN pc' = "clonalities" /\ err' = err
       ELSE err' = "KeyError" /\ pc' = pc
    /\ UNCHANGED <<outside, EM, meta_df, library_size, Y, Y_clonal, Y_ref,
                   clonalities, scalar_lib_size, effective_lib_size,
                   geo_mean, relative_normalization_factor, mrn_counts>>

CellClonalities ==
    /\ Runs("clonalities")
    /\ clonalities' = Clonalities(meta_df, library_size)
    /\ pc' = "scalar_lib_size"
    /\ UNCHANGED <<outside, EM, meta_df, err, library_size, Y, Y_clonal, Y_ref, tau,
                   ok_genes, ratios, scalar_lib_size, effective_lib_size,
                   geo_mean, relative_normalization_factor, mrn_counts>>

CellScalarLibSize ==
    /\ Runs("scalar_lib_size")
    /\ scalar_lib_size' = ScalarLibSize(clonalities, tau)
    /\ pc' = "effective_lib_size"
    /\ UNCHANGED <<outside, EM, meta_df, err, library_size, Y, Y_clonal, Y_ref, tau,
                   ok_genes, ratios, clonalities, effective_lib_size,
                   geo_mean, relative_normalization_factor, mrn_counts>>

\* effective_lib_size multiplied into the value an earlier run has left
CellEffectiveLibSizeAccumulates ==
    /\ Runs("effective_lib_size")
    /\ effective_lib_size' =
           IF effective_lib_size = Unbound
           THEN EffectiveLibSize(scalar_lib_size, library_size)
           ELSE [s \in DOMAIN effective_lib_size |->
                    Mul(effective_lib_size[s],
                        EffectiveLibSize(scalar_lib_size, library_size)[s])]
    /\ pc' = "geo_mean"
    /\ UNCHANGED <<outside, EM, meta_df, err, library_size, Y, Y_clonal, Y_ref,
                   tau, ok_genes, ratios, clonalities, scalar_lib_size,
                   geo_mean, relative_normalization_factor, mrn_counts>>

CellEffectiveLibSize ==
    /\ Runs("effective_lib_size")
    /\ effective_lib_size' = EffectiveLibSize(scalar_lib_size, library_size)
    /\ pc' = "geo_mean"
    /\ UNCHANGED <<outside, EM, meta_df, err, library_size, Y, Y_clonal, Y_ref, tau,
                   ok_genes, ratios, clonalities, scalar_lib_size,
                   geo_mean, relative_normalization_factor, mrn_counts>>

CellGeoMean ==
    /\ Runs("geo_mean")
    /\ geo_mean' = GeoMean(effective_lib_size)
    /\ pc' = "relative_normalization_factor"
    /\ UNCHANGED <<outside, EM, meta_df, err, library_size, Y, Y_clonal, Y_ref, tau,
                   ok_genes, ratios, clonalities, scalar_lib_size,
                   effective_lib_size, relative_normalization_factor,
                   mrn_counts>>

\* effective_lib_size divided in place: the factor overwrites it
CellRelativeNormalizationFactorInPlace ==
    /\ Runs("relative_normalization_factor")
    /\ relative_normalization_factor' =
           RelativeNormalizationFactor(effective_lib_size, geo_mean)
    /\ effective_lib_size' =
           RelativeNormalizationFactor(effective_lib_size, geo_mean)
    /\ pc' = "mrn_counts"
    /\ UNCHANGED <<outside, EM, meta_df, err, library_size, Y, Y_clonal, Y_ref,
                   tau, ok_genes, ratios, clonalities, scalar_lib_size,
                   geo_mean, mrn_counts>>

CellRelativeNormalizationFactor ==
    /\ Runs("relative_normalization_factor")
    /\ relative_normalization_factor' =
           RelativeNormalizationFactor(effective_lib_size, geo_mean)
    /\ pc' = "mrn_counts"
    /\ UNCHANGED <<outside, EM, meta_df, err, library_size, Y, Y_clonal, Y_ref, tau,
                   ok_genes, ratios, clonalities, scalar_lib_size,
                   effective_lib_size, geo_mean, mrn_counts>>

\* CellMrnCounts going back to the cell before it
CellMrnCountsReenters ==
    /\ Runs("mrn_counts")
    /\ mrn_counts' = MrnCounts(EM, relative_normalization_factor)
    /\ pc' = "relative_normalization_factor"
    /\ UNCHANGED <<outside, EM, meta_df, err, library_size, Y, Y_clonal, Y_ref,
                   tau, ok_genes, ratios, clonalities, scalar_lib_size,
                   effective_lib_size, geo_mean,
                   relative_normalization_factor>>

CellMrnCounts ==
    /\ Runs("mrn_counts")
    /\ mrn_counts' = MrnCounts(EM, relative_normalization_factor)
    /\ pc' = "done"
    /\ UNCHANGED <<outside, EM, meta_df, err, library_size, Y, Y_clonal, Y_ref, tau,
                   ok_genes, ratios, clonalities, scalar_lib_size,
                   effective_lib_size, geo_mean,
                   relative_normalization_factor>>

Next ==
    \/ CellLibrarySize
    \/ CellY
    \/ CellYClonal
    \/ CellYRef
    \/ CellTau
    \/ CellClonalities
    \/ CellScalarLibSize
    \/ CellEffectiveLibSize
    \/ CellGeoMean
    \/ CellRelativeNormalizationFactor
    \/ CellMrnCounts

Spec == Init /\ [][Next]_vars

\* The section is run again in the same kernel, on the same EM and
\* metadata: "Run All" once more after the run has ended or stopped.  The
\* kernel keeps every name the earlier run has assigned.
Rerun ==
    /\ pc = "done" \/ err # "none"
    /\ runs + 1 < MaxRuns
    /\ runs' = runs + 1
    /\ previous' = [pc |-> pc, err |-> err, geo_mean |-> geo_mean,
                    mrn_counts |-> mrn_counts]
    /\ pc' = "library_size"
    /\ err' = "none"
    /\ UNCHANGED <<relevant_call, median_call, EM, meta_df, library_size,
                   Y, Y_clonal,
                   Y_ref, tau, ok_genes, ratios, clonalities,
                   scalar_lib_size, effective_lib_size, geo_mean,
                   relative_normalization_factor, mrn_counts>>

NextRerun == Next \/ Rerun

SpecRerun == Init /\ [][NextRerun]_vars

\* ------------------------------------------------- np.median on its own
\* the kernel before the data are loaded: no cell of the section can run
NotLoaded ==
    /\ EM = Unbound
    /\ meta_df = Unbound
    /\ pc = "library_size"
    /\ err = "none"
    /\ library_size = Unbound
    /\ Y = Unbound
    /\ Y_clonal = Unbound
    /\ Y_ref = Unbound
    /\ tau = Unbound
    /\ ok_genes = Unbound
    /\ ratios = Unbound
    /\ clonalities = Unbound
    /\ scalar_lib_size = Unbound
    /\ effective_lib_size = Unbound
    /\ geo_mean = UnboundGeo
    /\ relative_normalization_factor = Unbound
    /\ mrn_counts = Unbound
    /\ runs = 0
    /\ previous = NoRun

\* the values a ratio of two entries of Y_clonal can take: positive
\* quotients, and NaN for a profile of NaN
RatioValues ==
    {Div(Rat(n), Rat(d)) : n \in 1..MaxTerm, d \in 1..MaxTerm} \cup {NaN}

RatioSeqs ==
    UNION {[1..n -> RatioValues] : n \in 0..MaxRatios}

\* line 573: np.median(ratios) about to be called on a sequence of ratios
InitMedian ==
    /\ NotLoaded
    /\ relevant_call = NoCall
    /\ \E r \in RatioSeqs :
          median_call = [called |-> TRUE, a |-> r, returned |-> FALSE,
                         result |-> NaN]

CallMedian ==
    /\ median_call.called
    /\ ~median_call.returned
    /\ median_call' = [median_call EXCEPT !.returned = TRUE,
                                          !.result = Median(median_call.a)]
    /\ UNCHANGED <<runs, previous, relevant_call, EM, meta_df, pc, err,
                   library_size, Y, Y_clonal, Y_ref, tau, ok_genes, ratios,
                   clonalities, scalar_lib_size, effective_lib_size,
                   geo_mean, relative_normalization_factor, mrn_counts>>

NextMedian == CallMedian

SpecMedian == InitMedian /\ [][NextMedian]_vars

\* ------------------------------------------------ get_relevant on its own
\* line 229: the columns of bulks_raw
genes == <<"CD3D", "ACTB">>

\* line 281: the defaults of get_relevant
DefaultThreshold == 10
DefaultPrevalence == Div(Rat(1), Rat(20))

\* the thresholds and prevalences get_relevant is called with, and the
\* raw counts around a threshold
Thresholds == {1, DefaultThreshold}
Prevalences == {DefaultPrevalence, Div(Rat(1), Rat(2)), One}
CountsAround(threshold) == {threshold - 1, threshold, threshold + 1}

\* lines 287-288: the share of the rows of gf in which the gene has more
\* than threshold counts
NonzeroProportion(gf, threshold) ==
    [g \in {genes[i] : i \in 1..Len(genes)} |->
        Div(Rat(Cardinality({b \in DOMAIN gf : gf[b][g] > threshold})),
            Rat(Cardinality(DOMAIN gf)))]

\* lines 281-291
GetRelevant(gf, eg, prevalence, threshold) ==
    LET nonzero_proportion == NonzeroProportion(gf, threshold)
        Relevant(gene) ==
            /\ gene \notin eg
            /\ Less(prevalence, nonzero_proportion[gene])
    IN  SelectSeq(genes, Relevant)

\* line 303: get_relevant about to be called on a matrix of raw counts
InitRelevant ==
    /\ NotLoaded
    /\ median_call = NoCall
    /\ \E threshold \in Thresholds, prevalence \in Prevalences :
       \E eg \in SUBSET {genes[i] : i \in 1..Len(genes)} :
       \E gf \in [Bulks -> [{genes[i] : i \in 1..Len(genes)} ->
                               CountsAround(threshold)]] :
          relevant_call = [called |-> TRUE, gf |-> gf, eg |-> eg,
                           prevalence |-> prevalence,
                           threshold |-> threshold,
                           returned |-> FALSE, result |-> << >>]

CallGetRelevant ==
    /\ relevant_call.called
    /\ ~relevant_call.returned
    /\ relevant_call' =
          [relevant_call EXCEPT
              !.returned = TRUE,
              !.result = GetRelevant(relevant_call.gf, relevant_call.eg,
                                     relevant_call.prevalence,
                                     relevant_call.threshold)]
    /\ UNCHANGED <<runs, previous, median_call, EM, meta_df, pc, err,
                   library_size, Y, Y_clonal, Y_ref, tau, ok_genes, ratios,
                   clonalities, scalar_lib_size, effective_lib_size,
                   geo_mean, relative_normalization_factor, mrn_counts>>

NextRelevant == CallGetRelevant

SpecRelevant == InitRelevant /\ [][NextRelevant]_vars

\* --------------------------------------------------------- reading a state
\* the cells in the order of the notebook
CellOrder ==
    <<"library_size", "Y", "Y_clonal", "Y_ref", "tau", "clonalities",
      "scalar_lib_size", "effective_lib_size", "geo_mean",
      "relative_normalization_factor", "mrn_counts", "done">>

CellIndex(cell) == CHOOSE i \in 1..Len(CellOrder) : CellOrder[i] = cell

\* the cell has run to its end
Ran(cell) == CellIndex(pc) > CellIndex(cell)

\* the samples of EM that the metadata puts in clone c
MembersOf(c) == {s \in Samples : s \in DOMAIN meta_df /\ meta_df[s] = c}

TypeOK ==
    /\ pc \in {CellOrder[i] : i \in 1..Len(CellOrder)}
    /\ err \in {"none", "KeyError"}

\* ----------------------------------------------------------------- claims
Positive(v) == IsFinite(v) /\ v # Zero

\* C1: when the reference clone has samples in EM and each of them has a
\* positive library size, the iteration of the loop for the reference
\* clone sets tau[reference clone] to exactly 1.
C1_ReferenceTauIsOne ==
    ( /\ RefClone \in DOMAIN ok_genes
      /\ MembersOf(RefClone) # {}
      /\ \A s \in MembersOf(RefClone) : library_size[s] > 0 )
    => tau[RefClone] = One

\* the tau of the reference clone is taken over several genes and is 1,
\* and another clone has a tau other than 1
C1_Witness ==
    /\ Ran("tau")
    /\ MembersOf(RefClone) # {}
    /\ \A s \in MembersOf(RefClone) : library_size[s] > 0
    /\ Len(ok_genes[RefClone]) >= 2
    /\ tau[RefClone] = One
    /\ \E c \in DOMAIN tau : Positive(tau[c]) /\ tau[c] # One

\* C2: a gene is among the ok genes of a clone only if its value is nonzero
\* in the profile of the clone and in the reference profile, and the ratios
\* that enter the median of the clone are those of its ok genes, one each.
C2_OkGenesNonzero ==
    \A c \in DOMAIN ok_genes :
        /\ \A i \in 1..Len(ok_genes[c]) :
              /\ Y_clonal[c][ok_genes[c][i]] # Zero
              /\ Y_ref[ok_genes[c][i]] # Zero
        /\ Len(ratios[c]) = Len(ok_genes[c])
        /\ \A i \in 1..Len(ratios[c]) : ratios[c][i] # Inf

InSeq(x, sq) == \E i \in 1..Len(sq) : sq[i] = x

\* a clone whose profile is zero at a gene where the reference is not: the
\* gene is left out and tau is the median over the remaining genes
C2_Witness ==
    /\ Ran("tau")
    /\ \E c \in DOMAIN ok_genes : \E g \in Genes :
          /\ Y_clonal[c][g] = Zero
          /\ Positive(Y_ref[g])
          /\ ~InSeq(g, ok_genes[c])
          /\ Len(ok_genes[c]) >= 1
          /\ Positive(tau[c])

\* C3: mrn_counts has the rows and columns of EM, and each entry is the raw
\* count of EM divided by the relative normalization factor of the sample:
\* the entries of a row are in the proportions of the raw counts of the row.
C3_MrnIsRawOverFactor ==
    Ran("mrn_counts") =>
        /\ DOMAIN mrn_counts = DOMAIN EM
        /\ \A s \in DOMAIN EM :
              /\ DOMAIN mrn_counts[s] = DOMAIN EM[s]
              /\ \A g \in DOMAIN EM[s] :
                    LET f == relative_normalization_factor[s]
                        m == mrn_counts[s][g]
                    IN  /\ m = GVal(Div(Rat(EM[s][g]), f.coef), -f.gexp)
                        /\ Positive(f.coef) =>
                              /\ Mul(m.coef, f.coef) = Rat(EM[s][g])
                              /\ EM[s][g] # 0 => m.gexp + f.gexp = 0
                        /\ \A h \in DOMAIN EM[s] :
                              Mul(m.coef, Rat(EM[s][h]))
                                  = Mul(mrn_counts[s][h].coef, Rat(EM[s][g]))

\* a finished run with a sample whose factor is not 1 and whose library
\* size is not 1
C3_Witness ==
    /\ pc = "done"
    /\ \E s \in Samples :
          /\ Positive(relative_normalization_factor[s].coef)
          /\ relative_normalization_factor[s].gexp = -1
          /\ relative_normalization_factor[s].coef # One
          /\ library_size[s] >= 2
          /\ Y[s] # [g \in Genes |-> Rat(EM[s][g])]

\* the product of the relative normalization factors, as a rational:
\* the product of the coefficients times G^(sum of the exponents), where
\* G^deg = rad; NaN when that power of G is not one of G^0, G^(-deg)
FactorProduct ==
    LET rnf == relative_normalization_factor
        p   == ProdOver(DOMAIN rnf, [s \in DOMAIN rnf |-> rnf[s].coef])
        e   == IntSum(DOMAIN rnf, [s \in DOMAIN rnf |-> rnf[s].gexp])
    IN  IF e = 0 THEN p
        ELSE IF e = -geo_mean.deg THEN Div(p, geo_mean.rad)
        ELSE NaN

\* C4: when every effective library size is positive, the relative
\* normalization factors have geometric mean 1: their product is 1.
C4_FactorsGeometricMeanOne ==
    ( /\ Ran("relative_normalization_factor")
      /\ \A s \in Samples : Positive(effective_lib_size[s]) )
    => FactorProduct = One

\* positive effective library sizes that are not all equal
C4_Witness ==
    /\ Ran("relative_normalization_factor")
    /\ \A s \in Samples : Positive(effective_lib_size[s])
    /\ \E s, t \in Samples : effective_lib_size[s] # effective_lib_size[t]
    /\ geo_mean.deg = NumSamples
    /\ \E s \in Samples : relative_normalization_factor[s].coef # One
    /\ FactorProduct = One

\* C5: when every row of EM has a nonzero total, every row of Y sums to 1.
C5_RowsOfYSumToOne ==
    ( /\ Ran("Y")
      /\ \A s \in Samples : IntSum(Genes, EM[s]) # 0 )
    => \A s \in Samples : SumOver(Genes, Y[s]) = One

\* rows of different nonzero totals, one of them with several nonzero genes
C5_Witness ==
    /\ Ran("Y")
    /\ \A s \in Samples : IntSum(Genes, EM[s]) # 0
    /\ \E s, t \in Samples : library_size[s] # library_size[t]
    /\ \E s \in Samples : \E g, h \in Genes :
          g # h /\ Positive(Y[s][g]) /\ Positive(Y[s][h])
    /\ \A s \in Samples : SumOver(Genes, Y[s]) = One

\* EM with the counts of sample s multiplied by k
Scaled(s, k) == [EM EXCEPT ![s] = [g \in Genes |-> k * EM[s][g]]]

\* Steps I-VI on a count matrix em with the metadata of the run
RunOn(em) ==
    LET WithScalar(ls, yr, sc) ==
            [library_size    |-> ls,
             Y_ref           |-> yr,
             scalar_lib_size |-> sc,
             geo_mean        |-> GeoMean(EffectiveLibSize(sc, ls))]
        WithYClonal(ls, yc) ==
            WithScalar(ls, yc[RefClone],
                       ScalarLibSize(Clonalities(meta_df, ls),
                                     TauOf(clones, yc, yc[RefClone])))
        WithLibrarySize(ls) ==
            WithYClonal(ls, YClonal(YOf(em, ls), meta_df))
    IN  WithLibrarySize(LibrarySize(em))

\* what C6 says of Steps I-V, for sample s and factor k, r the run on the
\* rescaled counts
ScalingKeepsTau(s, k, r) ==
    /\ r.library_size[s] = k * library_size[s]
    /\ s \notin MembersOf(RefClone) =>
          /\ \A t \in Samples \ {s} :
                r.scalar_lib_size[t] = scalar_lib_size[t]
          /\ r.Y_ref = Y_ref

\* C6 as stated: multiplying the counts of a sample s by k multiplies its
\* library size by k and, when s is not of the reference clone, leaves the
\* tau of every other sample, the reference profile and the geometric mean
\* of the effective library sizes unchanged.
C6_ScalingLeavesGeoMean ==
    pc = "done" =>
        \A s \in Samples : \A k \in 2..MaxScale :
            \A r \in {RunOn(Scaled(s, k))} :
                /\ ScalingKeepsTau(s, k, r)
                /\ s \notin MembersOf(RefClone) => r.geo_mean = geo_mean

\* C6 as amended: the library size of s is multiplied by k and, when s is
\* not of the reference clone, the tau of every other sample and the
\* reference profile are unchanged, while the geometric mean G of the
\* effective library sizes is multiplied by k^(1/n), n the number of
\* samples with a defined effective library size: G^n is multiplied by k.
\* G is unchanged only when the effective library size of s is undefined.
C6_ScalingScalesGeoMean ==
    pc = "done" =>
        \A s \in Samples : \A k \in 2..MaxScale :
            \A r \in {RunOn(Scaled(s, k))} :
                /\ ScalingKeepsTau(s, k, r)
                /\ s \notin MembersOf(RefClone) =>
                      r.geo_mean =
                          [rad |-> IF effective_lib_size[s] = NaN
                                   THEN geo_mean.rad
                                   ELSE Mul(Rat(k), geo_mean.rad),
                           deg |-> geo_mean.deg]

\* a finished run with a sample outside the reference clone whose effective
\* library size is positive, so that rescaling it moves the geometric mean
C6_Witness ==
    /\ pc = "done"
    /\ geo_mean.deg >= 2
    /\ Positive(geo_mean.rad)
    /\ \E s \in Samples :
          /\ s \in DOMAIN meta_df
          /\ meta_df[s] # RefClone
          /\ Positive(effective_lib_size[s])
          /\ \E r \in {RunOn(Scaled(s, MaxScale))} :
                /\ r.library_size[s] = MaxScale * library_size[s]
                /\ r.geo_mean # geo_mean

\* C7: when a clone has no ok gene, the loop stops with
\* InsufficientDataError: the run does not go on with a tau of NaN or 1
\* for the clone, and no later cell runs.
C7_EmptyOkGenesRaises ==
    \A c \in DOMAIN ok_genes :
        Len(ok_genes[c]) = 0 =>
            /\ err = "InsufficientDataError"
            /\ pc = "tau"

\* C8: when a sample has library size zero, the cell of Y stops with
\* DivisionError and Y is not produced.
C8_ZeroLibraryRaises ==
    ( /\ \E s \in Samples : IntSum(Genes, EM[s]) = 0
      /\ Ran("library_size") )
    => /\ Y = Unbound
       /\ pc = "Y"
       /\ err \in {"none", "DivisionError"}

\* C9: when a sample of EM has no clone in the metadata, the run stops with
\* ConsistencyError: the sample is not left out of the clone means and gets
\* no undefined factor.
C9_UnassignedSampleRaises ==
    ( /\ \E s \in Samples : s \notin DOMAIN meta_df
      /\ Ran("Y") )
    => /\ ~Ran("Y_clonal")
       /\ relative_normalization_factor = Unbound
       /\ pc = "Y_clonal"
       /\ err \in {"none", "ConsistencyError"}

\* C10: when no sample of EM is of the reference clone, so that Y_clonal has
\* no row for it, the cell of Y_ref raises a LookupError, and neither Y_ref
\* nor tau is set.
C10_MissingReferenceRaises ==
    [][ ( /\ pc = "Y_ref"
          /\ err = "none"
          /\ MembersOf(RefClone) = {} )
        => /\ err' \in LookupErrors
           /\ pc' = "Y_ref"
           /\ Y_ref' = Unbound
           /\ tau' = Unbound ]_vars

\* the run has stopped at the cell of Y_ref with KeyError
C10_Witness ==
    /\ pc = "Y_ref"
    /\ err = "KeyError"
    /\ MembersOf(RefClone) = {}
    /\ Y_clonal # Unbound
    /\ tau = Unbound

\* C11: when a sample has an effective library size that is zero or
\* negative, the cell of geo_mean stops with DomainError: the logarithm is
\* not applied and no geometric mean is set.
C11_NonPositiveEffectiveSizeRaises ==
    ( /\ Ran("effective_lib_size")
      /\ \E s \in Samples :
            IsFinite(effective_lib_size[s]) /\ ~Positive(effective_lib_size[s]) )
    => /\ pc = "geo_mean"
       /\ err \in {"none", "DomainError"}
       /\ geo_mean = UnboundGeo

\* the error conditions that a stage which has run has met
ZeroLibraryMet == Ran("Y") /\ \E s \in Samples : library_size[s] = 0

UnassignedSampleMet ==
    Ran("Y_clonal") /\ \E s \in Samples : s \notin DOMAIN meta_df

MissingReferenceMet ==
    /\ pc = "Y_ref"
    /\ err # "none"
    /\ MembersOf(RefClone) = {}

EmptyOkGenesMet == \E c \in DOMAIN ok_genes : Len(ok_genes[c]) = 0

NonPositiveEffectiveSizeMet ==
    /\ Ran("geo_mean")
    /\ \E s \in Samples :
          IsFinite(effective_lib_size[s]) /\ ~Positive(effective_lib_size[s])

\* C12: once a stage has met one of the error conditions the run has
\* stopped at that stage: no later cell runs and no normalized counts,
\* partial or complete, are produced.
C12_ErrorAbortsRun ==
    ( \/ ZeroLibraryMet
      \/ UnassignedSampleMet
      \/ MissingReferenceMet
      \/ EmptyOkGenesMet
      \/ NonPositiveEffectiveSizeMet )
    => /\ err # "none"
       /\ pc # "done"
       /\ mrn_counts = Unbound

\* C13: a run of the section on the inputs of the run before it, in the
\* kernel the earlier run has left, ends as that run did: it stops at the
\* same cell with the same exception, or ends with the same normalized
\* counts.
C13_RerunGivesSameOutput ==
    ( /\ runs > 0
      /\ pc = "done" \/ err # "none" )
    => /\ pc = previous.pc
       /\ err = previous.err
       /\ geo_mean = previous.geo_mean
       /\ mrn_counts = previous.mrn_counts

\* a second run that has ended with the normalized counts of the first,
\* with effective library sizes other than 1
C13_Witness ==
    /\ runs = 1
    /\ pc = "done"
    /\ previous.pc = "done"
    /\ mrn_counts = previous.mrn_counts
    /\ \E s \in Samples :
          /\ Positive(effective_lib_size[s])
          /\ effective_lib_size[s] # One
          /\ \E g \in Genes : Positive(mrn_counts[s][g].coef)

\* the stage of the pipeline a cell belongs to: 1 Library-Size Scaler,
\* 2 Group Reference Builder, 3 Ratio Estimator, 4 Effective-Size Combiner,
\* 5 Count Rescaler; 6 when the run has ended
StageOf(cell) ==
    CASE cell \in {"library_size", "Y"} -> 1
      [] cell \in {"Y_clonal", "Y_ref"} -> 2
      [] cell = "tau" -> 3
      [] cell \in {"clonalities", "scalar_lib_size", "effective_lib_size",
                   "geo_mean", "relative_normalization_factor"} -> 4
      [] cell = "mrn_counts" -> 5
      [] cell = "done" -> 6

\* the cell has left its whole output, as computed from the outputs of the
\* cells before it
Produced(cell) ==
    CASE cell = "library_size" -> library_size = LibrarySize(EM)
      [] cell = "Y" -> Y = YOf(EM, library_size)
      [] cell = "Y_clonal" -> Y_clonal = YClonal(Y, meta_df)
      [] cell = "Y_ref" ->
            RefClone \in DOMAIN Y_clonal /\ Y_ref = Y_clonal[RefClone]
      [] cell = "tau" ->
            DOMAIN tau = clones /\ tau = TauOf(clones, Y_clonal, Y_ref)
      [] cell = "clonalities" ->
            clonalities = Clonalities(meta_df, library_size)
      [] cell = "scalar_lib_size" ->
            scalar_lib_size = ScalarLibSize(clonalities, tau)
      [] cell = "effective_lib_size" ->
            effective_lib_size = EffectiveLibSize(scalar_lib_size, library_size)
      [] cell = "geo_mean" -> geo_mean = GeoMean(effective_lib_size)
      [] cell = "relative_normalization_factor" ->
            relative_normalization_factor =
                RelativeNormalizationFactor(effective_lib_size, geo_mean)
      [] cell = "mrn_counts" ->
            mrn_counts = MrnCounts(EM, relative_normalization_factor)

\* the step has left the whole output of the cell
ProducedBy(cell) ==
    CASE cell = "library_size" -> library_size' = LibrarySize(EM')
      [] cell = "Y" -> Y' = YOf(EM', library_size')
      [] cell = "Y_clonal" -> Y_clonal' = YClonal(Y', meta_df')
      [] cell = "Y_ref" ->
            RefClone \in DOMAIN Y_clonal' /\ Y_ref' = Y_clonal'[RefClone]
      [] cell = "tau" ->
            DOMAIN tau' = clones' /\ tau' = TauOf(clones', Y_clonal', Y_ref')
      [] cell = "clonalities" ->
            clonalities' = Clonalities(meta_df', library_size')
      [] cell = "scalar_lib_size" ->
            scalar_lib_size' = ScalarLibSize(clonalities', tau')
      [] cell = "effective_lib_size" ->
            effective_lib_size' =
                EffectiveLibSize(scalar_lib_size', library_size')
      [] cell = "geo_mean" -> geo_mean' = GeoMean(effective_lib_size')
      [] cell = "relative_normalization_factor" ->
            relative_normalization_factor' =
                RelativeNormalizationFactor(effective_lib_size', geo_mean')
      [] cell = "mrn_counts" ->
            mrn_counts' = MrnCounts(EM', relative_normalization_factor')

\* C14: the cells run in the order of the notebook, one after the other:
\* a step either ends the cell whose turn it is and passes to the next
\* cell, or stops the run in that cell; the stage never goes back, none is
\* passed over, and a cell runs only when every cell before it has left
\* its whole output.
C14_StagesRunInOrder ==
    [][ /\ err = "none"
        /\ \A i \in 1..(CellIndex(pc) - 1) : Produced(CellOrder[i])
        /\ \/ /\ err' = "none"
              /\ CellIndex(pc') = CellIndex(pc) + 1
              /\ StageOf(pc') \in {StageOf(pc), StageOf(pc) + 1}
              /\ ProducedBy(pc)
           \/ /\ err' # "none"
              /\ pc' = pc ]_vars

\* a run that has passed through all five stages to its end
C14_Witness ==
    /\ pc = "done"
    /\ err = "none"
    /\ \A i \in 1..(Len(CellOrder) - 1) : Produced(CellOrder[i])
    /\ StageOf(pc) = 6

\* the step leaves the output of the cell as it was
Kept(cell) ==
    CASE cell = "library_size" -> library_size' = library_size
      [] cell = "Y" -> Y' = Y
      [] cell = "Y_clonal" -> Y_clonal' = Y_clonal
      [] cell = "Y_ref" -> Y_ref' = Y_ref
      [] cell = "tau" -> tau' = tau
      [] cell = "clonalities" -> clonalities' = clonalities
      [] cell = "scalar_lib_size" -> scalar_lib_size' = scalar_lib_size
      [] cell = "effective_lib_size" ->
            effective_lib_size' = effective_lib_size
      [] cell = "geo_mean" -> geo_mean' = geo_mean
      [] cell = "relative_normalization_factor" ->
            relative_normalization_factor' = relative_normalization_factor
      [] cell = "mrn_counts" -> mrn_counts' = mrn_counts

\* C15: no cell changes what it reads: every step of a run leaves EM and
\* the clone labels of the metadata as they were, and leaves the output of
\* every cell that has run before it as that cell has left it.
C15_StagesLeaveInputsAlone ==
    [][ /\ EM' = EM
        /\ meta_df' = meta_df
        /\ \A i \in 1..(CellIndex(pc) - 1) : Kept(CellOrder[i]) ]_vars

\* the end of a run whose last cell has divided nonzero counts, with the
\* outputs of the earlier cells still in place
C15_Witness ==
    /\ pc = "done"
    /\ err = "none"
    /\ library_size = LibrarySize(EM)
    /\ Y = YOf(EM, library_size)
    /\ effective_lib_size = EffectiveLibSize(scalar_lib_size, library_size)
    /\ \E s \in Samples : \E g \in Genes :
          EM[s][g] > 0 /\ Positive(mrn_counts[s][g].coef)

\* v is the k-th smallest of the values of r
KthSmallest(r, k, v) ==
    /\ \E i \in 1..Len(r) : r[i] = v
    /\ Cardinality({i \in 1..Len(r) : Less(r[i], v)}) <= k - 1
    /\ Cardinality({i \in 1..Len(r) : ~Less(v, r[i])}) >= k

\* m is the median of r: the middle value of an odd number of values, the
\* arithmetic mean of the two middle values of an even number
IsStandardMedian(r, m) ==
    LET n == Len(r)
    IN  IF n % 2 = 1
        THEN KthSmallest(r, (n + 1) \div 2, m)
        ELSE \E i, j \in 1..n :
                /\ KthSmallest(r, n \div 2, r[i])
                /\ KthSmallest(r, n \div 2 + 1, r[j])
                /\ m = Div(Add(r[i], r[j]), Rat(2))

AllFinite(r) == \A i \in 1..Len(r) : IsFinite(r[i])

\* C16: for a clone with a non-empty ok-genes set and finite ratios, tau
\* of the clone is the standard median of its ratios; np.median returns
\* the middle value of an odd number of ratios and the mean of the two
\* middle values of an even number.
C16_TauIsStandardMedian ==
    /\ ( /\ median_call.called
         /\ median_call.returned
         /\ Len(median_call.a) > 0
         /\ AllFinite(median_call.a) )
       => IsStandardMedian(median_call.a, median_call.result)
    /\ \A c \in DOMAIN ratios :
          ( /\ c \in DOMAIN tau
            /\ Len(ratios[c]) > 0
            /\ AllFinite(ratios[c]) )
          => IsStandardMedian(ratios[c], tau[c])

\* np.median has returned for three ratios not given in order, and for two
\* ratios that differ
C16_WitnessOdd ==
    /\ median_call.called
    /\ median_call.returned
    /\ median_call.a = <<Rat(2), One, Rat(3)>>
    /\ median_call.result = Rat(2)

C16_Witness ==
    /\ median_call.called
    /\ median_call.returned
    /\ median_call.a = <<Rat(2), One>>
    /\ median_call.result = Div(Rat(3), Rat(2))

\* the genes found in at least the prevalence fraction of the rows of gf at
\* a level of threshold counts or more
FoundOftenEnough(gf, prevalence, threshold) ==
    {g \in {genes[i] : i \in 1..Len(genes)} :
        ~Less(Div(Rat(Cardinality({b \in DOMAIN gf : gf[b][g] >= threshold})),
                  Rat(Cardinality(DOMAIN gf))),
              prevalence)}

\* C17: get_relevant returns exactly the genes that are not in the
\* exclusion list and that are found in at least the prevalence fraction
\* of all samples at a level of threshold counts or more.
C17_RelevantAtLeast ==
    ( relevant_call.called /\ relevant_call.returned )
    => {relevant_call.result[i] : i \in 1..Len(relevant_call.result)}
          = FoundOftenEnough(relevant_call.gf, relevant_call.prevalence,
                             relevant_call.threshold) \ relevant_call.eg

\* the sum of the coefficients of the row of mrn_counts of sample s
RowCoefSum(s) ==
    SumOver(Genes, [g \in Genes |-> mrn_counts[s][g].coef])

\* C18: in a run that has ended with every effective library size
\* positive, every nonzero normalized count is a multiple of geo_mean and
\* the row of a sample sums to geo_mean / tau[clone of the sample]: the
\* same for all samples of one clone whatever their library sizes, and
\* geo_mean itself for the samples of the reference clone.
C18_RowSumIsGeoMeanOverTau ==
    ( /\ pc = "done"
      /\ \A s \in Samples : Positive(effective_lib_size[s]) )
    => \A s \in Samples :
          /\ \A g \in Genes :
                mrn_counts[s][g].coef = Zero \/ mrn_counts[s][g].gexp = 1
          /\ RowCoefSum(s) = Div(One, tau[meta_df[s]])
          /\ meta_df[s] = RefClone => RowCoefSum(s) = One
          /\ \A t \in Samples :
                meta_df[t] = meta_df[s] => RowCoefSum(t) = RowCoefSum(s)

\* a finished run with a sample of a clone whose tau is not 1, and two
\* samples of one clone whose library sizes differ
C18_Witness ==
    /\ pc = "done"
    /\ \A s \in Samples : Positive(effective_lib_size[s])
    /\ \E s \in Samples :
          /\ tau[meta_df[s]] # One
          /\ RowCoefSum(s) = Div(One, tau[meta_df[s]])

C18_WitnessSameClone ==
    /\ pc = "done"
    /\ \A s \in Samples : Positive(effective_lib_size[s])
    /\ \E s, t \in Samples :
          /\ meta_df[s] = meta_df[t]
          /\ library_size[s] # library_size[t]
          /\ RowCoefSum(s) = RowCoefSum(t)

====
